---- MODULE Spec2Model ----
(***************************************************************************)
(* Groth16 verification path of darklake-groth16 (src/src/verifier.rs):    *)
(* prepare_verifying_key, prepare_inputs_with_variables,                   *)
(* verify_with_variables and verify_proof_with_prepared_inputs.            *)
(*                                                                         *)
(* The pairing engine E is the generic parameter of the code.  It is       *)
(* modelled by a bilinear pairing over cyclic groups of prime order P:     *)
(* a group element is its discrete logarithm in 0..P-1, group addition is  *)
(* addition mod P, scalar multiplication is multiplication mod P and the   *)
(* pairing of a and b is a*b mod P (the logarithm of the target element).  *)
(* A Rust panic (index out of bounds) is the outcome kind "Panic".         *)
(***************************************************************************)
EXTENDS Integers, Sequences, FiniteSets, TLC

\* Order of the groups of the pairing engine E (a prime: E::ScalarField is a PrimeField).
P == 3
\* Longest coefficient sequence (gamma_abc_g1_static, gamma_abc_g1_variable) of a sampled key.
MaxCoeffLen == 3
\* Longest input vector (static_inputs, variable_inputs) of a sampled call.
MaxInputLen == 2
\* Number of prepare_verifying_key calls a run makes on its key.
MaxPrepares == 2

VARIABLES
    degenerate,       \* E: the Miller-loop outputs on which final_exponentiation is None
    vk,               \* the VerifyingKey
    proof,            \* the Proof (a, b, c)
    static_inputs,    \* caller's static input vector
    variable_inputs,  \* caller's variable input vector
    pvk,              \* result of the latest prepare_verifying_key call
    prepares,         \* number of prepare_verifying_key calls made
    prepared,         \* outcome of prepare_inputs_with_variables on the current inputs
    verified,         \* outcome of verify_with_variables on the current inputs
    checked,          \* outcome of verify_proof_with_prepared_inputs on prepared's element
    mutated           \* the single input scalar the caller changed after an accepted proof

vars == <<degenerate, vk, proof, static_inputs, variable_inputs, pvk, prepares,
          prepared, verified, checked, mutated>>

----------------------------------------------------------------------------
(* The primitives the code takes from the pairing engine E.                *)

G1 == 0 .. (P - 1)
G2 == 0 .. (P - 1)
Fr == 0 .. (P - 1)

\* AddAssign on E::G1
GAdd(x, y) == (x + y) % P
\* Neg on a group element
GNeg(x) == (P - x) % P
\* mul_bigint: group element times scalar
GMul(x, s) == (x * s) % P
\* E::pairing(a, b).0
Pairing(a, b) == (a * b) % P
\* E::multi_miller_loop over three pairs
MultiMillerLoop(g1s, g2s) ==
    (g1s[1] * g2s[1] + g1s[2] * g2s[2] + g1s[3] * g2s[3]) % P
\* E::final_exponentiation: Option, None on the outputs E is degenerate on
FinalExponentiation(qap) ==
    IF qap \in degenerate THEN [some |-> FALSE, val |-> 0] ELSE [some |-> TRUE, val |-> qap]

\* slice indexing seq[idx] with a zero-based idx
InBounds(seq, idx) == idx < Len(seq)
At(seq, idx) == seq[idx + 1]

----------------------------------------------------------------------------
(* Outcomes of the calls.                                                  *)

NotCalled == [kind |-> "NotCalled", err |-> "", g |-> 0, accept |-> FALSE,
              reads |-> 0, muls |-> 0, adds |-> 0, pairings |-> 0]
\* Err(SynthesisError::...)
Err(e, r) == [r EXCEPT !.kind = "Err", !.err = e]
\* index out of bounds: the thread panics
Panic(r) == [r EXCEPT !.kind = "Panic", !.err = "index out of bounds"]

----------------------------------------------------------------------------
(* prepare_verifying_key                                                   *)

\* prepare_verifying_key with gamma_g2 stored without negation
prepare_verifying_key_no_neg(k) ==
    [vk |-> k,
     alpha_g1_beta_g2 |-> Pairing(k.alpha_g1, k.beta_g2),
     gamma_g2_neg_pc |-> k.gamma_g2,
     delta_g2_neg_pc |-> GNeg(k.delta_g2)]

prepare_verifying_key(k) ==
    [vk |-> k,
     alpha_g1_beta_g2 |-> Pairing(k.alpha_g1, k.beta_g2),
     gamma_g2_neg_pc |-> GNeg(k.gamma_g2),
     delta_g2_neg_pc |-> GNeg(k.delta_g2)]

----------------------------------------------------------------------------
(* prepare_inputs_with_variables                                           *)

\* the static loop with the coefficient added unscaled (mul_bigint left out)
RECURSIVE StaticLoop_unscaled(_, _, _, _)
StaticLoop_unscaled(k, s, i, acc) ==
    IF i >= Len(s) THEN acc
    ELSE LET idx == i + 1
         IN  IF ~InBounds(k.gamma_abc_g1_static, idx) THEN Panic(acc)
             ELSE StaticLoop_unscaled(k, s, i + 1,
                     [acc EXCEPT !.g = GAdd(acc.g, At(k.gamma_abc_g1_static, idx)),
                                 !.reads = acc.reads + 1,
                                 !.adds = acc.adds + 1])

\* for (i, static_input) in static_inputs.iter().enumerate(), from iteration i on
RECURSIVE StaticLoop(_, _, _, _)
StaticLoop(k, s, i, acc) ==
    IF i >= Len(s) THEN acc
    ELSE LET idx == i + 1
         IN  IF ~InBounds(k.gamma_abc_g1_static, idx) THEN Panic(acc)
             ELSE StaticLoop(k, s, i + 1,
                     [acc EXCEPT !.g = GAdd(acc.g, GMul(At(k.gamma_abc_g1_static, idx), At(s, i))),
                                 !.reads = acc.reads + 1,
                                 !.muls = acc.muls + 1,
                                 !.adds = acc.adds + 1])

\* for (i, variable_input) in variable_inputs.iter().enumerate(), from iteration i on
RECURSIVE VariableLoop(_, _, _, _, _)
VariableLoop(k, v, static_offset, i, acc) ==
    IF i >= Len(v) THEN acc
    ELSE LET idx == static_offset + i
         IN  IF ~InBounds(k.gamma_abc_g1_variable, idx) THEN Panic(acc)
             ELSE VariableLoop(k, v, static_offset, i + 1,
                     [acc EXCEPT !.g = GAdd(acc.g, GMul(At(k.gamma_abc_g1_variable, idx), At(v, i))),
                                 !.reads = acc.reads + 1,
                                 !.muls = acc.muls + 1,
                                 !.adds = acc.adds + 1])

\* the length check of prepare_inputs_with_variables
LengthsRejected(k, s, v) ==
    LET expected_total_inputs == Len(s) + Len(v)
    IN  expected_total_inputs + 1 # Len(k.gamma_abc_g1_static) + Len(k.gamma_abc_g1_variable)

prepare_inputs_with_variables(p, s, v) ==
    IF LengthsRejected(p.vk, s, v) THEN Err("MalformedVerifyingKey", NotCalled)
    ELSE IF ~InBounds(p.vk.gamma_abc_g1_static, 0) THEN Panic(NotCalled)
    ELSE LET g_ic == [NotCalled EXCEPT !.kind = "Ok",
                                       !.g = At(p.vk.gamma_abc_g1_static, 0),
                                       !.reads = 1]
             afterStatic == StaticLoop(p.vk, s, 0, g_ic)
             static_offset == Len(s) + 1
         IN  IF afterStatic.kind = "Panic" THEN afterStatic
             ELSE VariableLoop(p.vk, v, static_offset, 0, afterStatic)

----------------------------------------------------------------------------
(* verify_proof_with_prepared_inputs and verify_with_variables             *)

\* the pairing check with a failed final exponentiation reported as a rejection
verify_proof_with_prepared_inputs_none_rejects(p, pr, prepared_inputs) ==
    LET qap == MultiMillerLoop(<<pr.a, prepared_inputs, pr.c>>,
                               <<pr.b, p.gamma_g2_neg_pc, p.delta_g2_neg_pc>>)
        test == FinalExponentiation(qap)
        ran == [NotCalled EXCEPT !.g = prepared_inputs, !.pairings = 1]
    IN  [ran EXCEPT !.kind = "Ok",
                    !.accept = (test.some /\ test.val = p.alpha_g1_beta_g2)]

verify_proof_with_prepared_inputs(p, pr, prepared_inputs) ==
    LET qap == MultiMillerLoop(<<pr.a, prepared_inputs, pr.c>>,
                               <<pr.b, p.gamma_g2_neg_pc, p.delta_g2_neg_pc>>)
        test == FinalExponentiation(qap)
        ran == [NotCalled EXCEPT !.g = prepared_inputs, !.pairings = 1]
    IN  IF ~test.some THEN Err("UnexpectedIdentity", ran)
        ELSE [ran EXCEPT !.kind = "Ok", !.accept = (test.val = p.alpha_g1_beta_g2)]

\* verify_with_variables with a failed aggregation replaced by the constant term
\* instead of being propagated
verify_with_variables_default_on_error(p, pr, s, v) ==
    LET prepared_inputs == prepare_inputs_with_variables(p, s, v)
    IN  IF prepared_inputs.kind = "Panic" THEN prepared_inputs
        ELSE IF prepared_inputs.kind = "Err"
        THEN verify_proof_with_prepared_inputs(p, pr, 0)
        ELSE LET r == verify_proof_with_prepared_inputs(p, pr, prepared_inputs.g)
             IN  [r EXCEPT !.reads = prepared_inputs.reads,
                           !.muls = prepared_inputs.muls,
                           !.adds = prepared_inputs.adds]

verify_with_variables(p, pr, s, v) ==
    LET prepared_inputs == prepare_inputs_with_variables(p, s, v)
    IN  IF prepared_inputs.kind # "Ok" THEN prepared_inputs
        ELSE LET r == verify_proof_with_prepared_inputs(p, pr, prepared_inputs.g)
             IN  [r EXCEPT !.reads = prepared_inputs.reads,
                           !.muls = prepared_inputs.muls,
                           !.adds = prepared_inputs.adds]

----------------------------------------------------------------------------
(* The callers' data: sampled keys, proofs and input vectors.              *)

\* gamma_abc coefficient sequence number k, of length n
CoeffSeq(k, n) == [i \in 1 .. n |-> (k + i) % P]
\* input vector number k, of length n
InputSeq(k, n) == [i \in 1 .. n |-> (2 * i + k) % P]

VerifyingKeys ==
    [alpha_g1 : {1, 2}, beta_g2 : {2}, gamma_g2 : G2, delta_g2 : {1, 2},
     gamma_abc_g1_static : {CoeffSeq(k, n) : k \in {0, 1}, n \in 0 .. MaxCoeffLen},
     gamma_abc_g1_variable : {CoeffSeq(0, n) : n \in 0 .. MaxCoeffLen}]

Proofs == [a : G1, b : {1, 2}, c : {0, 1}]

StaticInputs == {InputSeq(k, n) : k \in {0, 1}, n \in 0 .. MaxInputLen}
VariableInputs == {InputSeq(0, n) : n \in 0 .. MaxInputLen}

\* the engines: final_exponentiation total, or None on one Miller-loop output
Engines == {{}, {0}}

NoChange == [which |-> "none", index |-> 0, old |-> 0]

Init ==
    /\ degenerate \in Engines
    /\ vk \in VerifyingKeys
    /\ proof \in Proofs
    /\ static_inputs \in StaticInputs
    /\ variable_inputs \in VariableInputs
    /\ pvk = <<>>
    /\ prepares = 0
    /\ prepared = NotCalled
    /\ verified = NotCalled
    /\ checked = NotCalled
    /\ mutated = NoChange

\* a caller prepares the key (again)
PrepareVerifyingKey ==
    /\ prepares < MaxPrepares
    /\ pvk' = <<prepare_verifying_key(vk)>>
    /\ prepares' = prepares + 1
    /\ UNCHANGED <<degenerate, vk, proof, static_inputs, variable_inputs,
                   prepared, verified, checked, mutated>>

\* a caller aggregates the inputs
PrepareInputsWithVariables ==
    /\ pvk # <<>>
    /\ prepared.kind = "NotCalled"
    /\ prepared' = prepare_inputs_with_variables(pvk[1], static_inputs, variable_inputs)
    /\ UNCHANGED <<degenerate, vk, proof, static_inputs, variable_inputs, pvk, prepares,
                   verified, checked, mutated>>

\* a caller verifies the proof against the raw inputs
VerifyWithVariables ==
    /\ pvk # <<>>
    /\ verified.kind = "NotCalled"
    /\ verified' = verify_with_variables(pvk[1], proof, static_inputs, variable_inputs)
    /\ UNCHANGED <<degenerate, vk, proof, static_inputs, variable_inputs, pvk, prepares,
                   prepared, checked, mutated>>

\* a caller verifies the proof against the element prepare_inputs_with_variables returned
VerifyProofWithPreparedInputs ==
    /\ pvk # <<>>
    /\ prepared.kind = "Ok"
    /\ checked.kind = "NotCalled"
    /\ checked' = verify_proof_with_prepared_inputs(pvk[1], proof, prepared.g)
    /\ UNCHANGED <<degenerate, vk, proof, static_inputs, variable_inputs, pvk, prepares,
                   prepared, verified, mutated>>

\* after an accepted proof the caller changes one input scalar and will verify again
MutateInput ==
    /\ verified.kind = "Ok"
    /\ verified.accept
    /\ mutated.which = "none"
    /\ \E which \in {"static", "variable"} :
         LET vec == IF which = "static" THEN static_inputs ELSE variable_inputs
         IN  \E i \in 0 .. (Len(vec) - 1), x \in Fr :
               /\ x # At(vec, i)
               /\ mutated' = [which |-> which, index |-> i, old |-> At(vec, i)]
               /\ static_inputs' = IF which = "static"
                                     THEN [static_inputs EXCEPT ![i + 1] = x]
                                     ELSE static_inputs
               /\ variable_inputs' = IF which = "variable"
                                       THEN [variable_inputs EXCEPT ![i + 1] = x]
                                       ELSE variable_inputs
    /\ prepared' = NotCalled
    /\ verified' = NotCalled
    /\ checked' = NotCalled
    /\ UNCHANGED <<degenerate, vk, proof, pvk, prepares>>

Next ==
    \/ PrepareVerifyingKey
    \/ PrepareInputsWithVariables
    \/ VerifyWithVariables
    \/ VerifyProofWithPreparedInputs
    \/ MutateInput

Spec == Init /\ [][Next]_vars

----------------------------------------------------------------------------
(* What the claims speak of.                                               *)

StaticCoeffLen == Len(vk.gamma_abc_g1_static)
VariableCoeffLen == Len(vk.gamma_abc_g1_variable)

\* the static count is (static coefficient-sequence length - 1), the variable count
\* is the variable coefficient-sequence length
LayoutMatches ==
    /\ Len(static_inputs) = StaticCoeffLen - 1
    /\ Len(variable_inputs) = VariableCoeffLen

IsMalformed(r) == r.kind = "Err" /\ r.err = "MalformedVerifyingKey"
Called(r) == r.kind # "NotCalled"

\* sum over j < n of inputs[j] * coeffs[j + offset]
RECURSIVE WeightedSum(_, _, _, _)
WeightedSum(coeffs, offset, inputs, n) ==
    IF n = 0 THEN 0
    ELSE (WeightedSum(coeffs, offset, inputs, n - 1)
            + At(inputs, n - 1) * At(coeffs, n - 1 + offset)) % P

\* static_coeff[0] + sum_i static_inputs[i] * static_coeff[i+1]
\*                 + sum_j variable_inputs[j] * variable_coeff[j]
ExpectedAggregate ==
    (At(vk.gamma_abc_g1_static, 0)
       + WeightedSum(vk.gamma_abc_g1_static, 1, static_inputs, Len(static_inputs))
       + WeightedSum(vk.gamma_abc_g1_variable, 0, variable_inputs, Len(variable_inputs))) % P

\* the proof satisfies the Groth16 pairing equation for the key and the inputs:
\* e(A,B) * e(g,-gamma) * e(C,-delta) exponentiates to e(alpha,beta)
Genuine ==
    LET test == FinalExponentiation(
                    MultiMillerLoop(<<proof.a, ExpectedAggregate, proof.c>>,
                                    <<proof.b, (P - vk.gamma_g2) % P, (P - vk.delta_g2) % P>>))
    IN  test.some /\ test.val = (vk.alpha_g1 * vk.beta_g2) % P

\* C1: a static_inputs length one less or one more than (static coefficient length - 1)
\* makes prepare_inputs_with_variables and verify_with_variables return
\* MalformedVerifyingKey, whatever the variable_inputs length is.  Stated for the keys
\* whose static sequence holds its constant term.
C1_StaticOffByOneIsMalformed ==
    (/\ StaticCoeffLen >= 1
     /\ \/ Len(static_inputs) = StaticCoeffLen - 2
        \/ Len(static_inputs) = StaticCoeffLen)
        => /\ Called(prepared) => IsMalformed(prepared)
           /\ Called(verified) => IsMalformed(verified)

\* C2: a variable_inputs length different from the variable coefficient length makes
\* prepare_inputs_with_variables and verify_with_variables return MalformedVerifyingKey,
\* whatever the static_inputs vector is.  Stated for the keys whose static sequence
\* holds its constant term.
C2_VariableLengthMismatchIsMalformed ==
    (StaticCoeffLen >= 1 /\ Len(variable_inputs) # VariableCoeffLen)
        => /\ Called(prepared) => IsMalformed(prepared)
           /\ Called(verified) => IsMalformed(verified)

\* C3: with matching lengths prepare_inputs_with_variables returns Ok(g), g the constant
\* term plus every static input times its coefficient (index i+1) plus every variable
\* input times its coefficient (index j, no offset).
C3_AggregateIsWeightedSum ==
    (LayoutMatches /\ Called(prepared))
        => prepared.kind = "Ok" /\ prepared.g = ExpectedAggregate

\* C4: a genuine proof is accepted by verify_with_variables for every split of the
\* inputs that matches the key's layout, the all-variable split included.
C4_GenuineProofAccepted ==
    (LayoutMatches /\ Genuine /\ Called(verified))
        => verified.kind = "Ok" /\ verified.accept

\* C5: verify_proof_with_prepared_inputs returns Err(UnexpectedIdentity) exactly when
\* final exponentiation of the multi-pairing over (A,B), (prepared_inputs, -gamma),
\* (C, -delta) fails, and otherwise Ok(b) with b true exactly when the exponentiated
\* value equals the stored alpha-beta pairing value.
C5_PairingCheckOutcome ==
    Called(checked) =>
        LET test == FinalExponentiation(
                        MultiMillerLoop(<<proof.a, checked.g, proof.c>>,
                                        <<proof.b, pvk[1].gamma_g2_neg_pc,
                                          pvk[1].delta_g2_neg_pc>>))
        IN  /\ checked.kind \in {"Ok", "Err"}
            /\ checked.kind = "Err" <=> ~test.some
            /\ checked.kind = "Err" => checked.err = "UnexpectedIdentity"
            /\ checked.kind = "Ok" =>
                  (checked.accept <=> test.val = pvk[1].alpha_g1_beta_g2)

C5_RejectedIsOkFalse ==
    /\ Called(checked)
    /\ checked.kind = "Ok"
    /\ ~checked.accept
    /\ degenerate # {}

\* C6: every call of prepare_inputs_with_variables and verify_with_variables ends in
\* accept, reject or a returned error; none aborts on an out-of-bounds index.
C6_NoOutOfBoundsAbort ==
    prepared.kind # "Panic" /\ verified.kind # "Panic"

\* C7: prepare_inputs_with_variables followed by verify_proof_with_prepared_inputs has
\* the outcome of verify_with_variables on the same arguments; when aggregation fails,
\* verify_with_variables returns that failure and evaluates no pairing.
C7_EntryPointsAgree ==
    (Called(prepared) /\ Called(verified)) =>
        /\ prepared.kind # "Ok" =>
              /\ verified.kind = prepared.kind
              /\ verified.err = prepared.err
              /\ verified.pairings = 0
        /\ (prepared.kind = "Ok" /\ Called(checked)) =>
              /\ verified.kind = checked.kind
              /\ verified.err = checked.err
              /\ verified.accept = checked.accept

C7_BothPathsAccept ==
    /\ prepared.kind = "Ok"
    /\ Called(checked)
    /\ Called(verified)
    /\ checked.accept
    /\ Len(static_inputs) > 0

\* the key's coefficient of the input scalar the caller changed
MutatedCoeff ==
    IF mutated.which = "static"
    THEN At(vk.gamma_abc_g1_static, mutated.index + 1)
    ELSE At(vk.gamma_abc_g1_variable, mutated.index)

\* C8 as stated: after an accepted proof, changing one input scalar whose coefficient
\* is not the identity makes verify_with_variables return Ok(false).
C8_AnyChangedInputRejected ==
    (mutated.which # "none" /\ Called(verified) /\ MutatedCoeff # 0)
        => verified.kind = "Ok" /\ ~verified.accept

\* C8 amended: after an accepted proof, changing one input scalar whose coefficient is
\* not the identity, under a key whose gamma_g2 is not the identity, never yields
\* Ok(true) again: the call returns Ok(false), or Err(UnexpectedIdentity) when final
\* exponentiation fails on the changed call.
C8_ChangedInputNotAccepted ==
    (mutated.which # "none" /\ Called(verified) /\ MutatedCoeff # 0 /\ vk.gamma_g2 # 0)
        => /\ ~(verified.kind = "Ok" /\ verified.accept)
           /\ verified.kind \in {"Ok", "Err"}
           /\ verified.kind = "Err" => verified.err = "UnexpectedIdentity"
           /\ degenerate = {} => verified.kind = "Ok"

C8_ChangedInputVerified ==
    /\ mutated.which # "none"
    /\ Called(verified)
    /\ MutatedCoeff # 0
    /\ vk.gamma_g2 # 0
    /\ verified.kind = "Ok"
    /\ ~verified.accept

\* C9: every prepare_verifying_key call leaves the key as it was and returns a copy of
\* the key, the pairing value of (alpha, beta) and the negations of gamma and delta;
\* a repeated call on the same key returns an equal PreparedVerifyingKey.
C9_PrepareDeterministic ==
    [][prepares' = prepares + 1 =>
          /\ vk' = vk
          /\ pvk'[1].vk = vk
          /\ pvk'[1].alpha_g1_beta_g2 = (vk.alpha_g1 * vk.beta_g2) % P
          /\ (pvk'[1].gamma_g2_neg_pc + vk.gamma_g2) % P = 0
          /\ (pvk'[1].delta_g2_neg_pc + vk.delta_g2) % P = 0
          /\ prepares >= 1 => pvk' = pvk]_vars

C9_PreparedTwice ==
    /\ prepares = 2
    /\ vk.gamma_g2 # 0
    /\ pvk[1].gamma_g2_neg_pc # vk.gamma_g2

\* C10: in every call whose static count differs from (static coefficient length - 1)
\* or whose variable count differs from the variable coefficient length, the error is
\* returned before any coefficient is read, any scalar multiplication or group addition
\* is done and any pairing is evaluated.  Stated for the keys whose static sequence
\* holds its constant term.
C10_MismatchFailsBeforeArithmetic ==
    (StaticCoeffLen >= 1 /\ ~LayoutMatches) =>
        \A r \in {prepared, verified} :
            Called(r) => /\ IsMalformed(r)
                         /\ r.reads = 0
                         /\ r.muls = 0
                         /\ r.adds = 0
                         /\ r.pairings = 0

====
